---- MODULE Spec2Model ----
(***************************************************************************)
(* Document ingestion and background PDF extraction of the                 *)
(* ai-knowledge-system Tauri backend (src-tauri/src).                      *)
(*                                                                         *)
(* Request handlers (upload_file, create_document, get_user_documents)     *)
(* and the detached extraction tasks spawned by upload_file share one      *)
(* Arc<Mutex<DocumentService>>.  Handlers take it with lock().await, the   *)
(* background task with try_lock().  The documents table is the sequence   *)
(* docs; a row's id is its index.                                          *)
(***************************************************************************)
EXTENDS Integers, Sequences, FiniteSets, TLC

VARIABLES docs, clock, lock, hs, bg, files

vars == <<docs, clock, lock, hs, bg, files>>

\* ------------------------------------------------------------- bounds
\* number of commands the frontend invokes in one behaviour; each invocation is
\* run by a handler task of its own
MaxRequests == 2

Handlers == 1..MaxRequests
DocIds == 1..MaxRequests

\* Option<T>: None is the empty sequence, Some(x) the one-element sequence
None == <<>>
Some(x) == <<x>>
IsSome(o) == o # <<>>
Unwrap(o) == o[1]

\* ------------------------------------------------------------- inputs
\* a path's file name as a sequence of characters
Name_note_txt == <<"n", ".", "t", "x", "t">>
Name_p_pdf == <<"p", ".", "p", "d", "f">>
Name_s_txt == <<"s", ".", "t", "x", "t">>
Name_X_PDF == <<"x", ".", "P", "D", "F">>

HexTail(c, n) == [i \in 1..n |-> c]
\* SHA-256 digests as 64 lower-case hex characters
HashA == <<"a", "1", "b", "2", "c", "3", "d", "4">> \o HexTail("0", 56)
HashB == <<"e", "5", "f", "6", "0", "7", "1", "8">> \o HexTail("1", 56)

\* what the file system holds at a source path: whether it exists, its file
\* name, its length in bytes, the MIME type infer sniffs from its bytes (None:
\* unknown) and its digest
SourceFiles ==
  { [exists |-> TRUE,  name |-> Name_note_txt, size |-> 10, sniff |-> None, hash |-> HashA],
    [exists |-> TRUE,  name |-> Name_X_PDF, size |-> 10, sniff |-> None, hash |-> HashA],
    [exists |-> FALSE, name |-> Name_note_txt, size |-> 10, sniff |-> None, hash |-> HashA] }

\* files whose bytes infer recognises as a PDF, under a .txt and a .pdf name
SniffedSourceFiles ==
  { [exists |-> TRUE,  name |-> Name_s_txt, size |-> 400, sniff |-> Some("application/pdf"), hash |-> HashB],
    [exists |-> TRUE,  name |-> Name_p_pdf, size |-> 400, sniff |-> Some("application/pdf"), hash |-> HashB] }

\* owners; a user id string parses to one of them or not at all
Users == {"u1", "u2"}
UserIdStrings == Users \cup {"not-a-uuid"}

\* UploadFileRequest values upload_file is invoked with
UploadFileRequests ==
  { [user_id |-> "u1", source_path |-> f] : f \in SourceFiles }
  \cup { [user_id |-> "not-a-uuid", source_path |-> f] :
           f \in {g \in SourceFiles : g.name = Name_X_PDF} }

SniffedUploadFileRequests ==
  { [user_id |-> "u1", source_path |-> f] : f \in SniffedSourceFiles }

\* a String is its UTF-8 bytes: an ASCII character is one byte, written as the
\* character; the character e-acute is the two bytes C3 A9
EAcute == <<"C3", "A9">>

\* n times the byte c
Repeat(c, n) == [i \in 1..n |-> c]

\* text whose 500th and 501st bytes are one character
TextNonAscii == Repeat("a", 499) \o EAcute \o <<" ", "b">>

\* text extract_text_from_pdf can return
Texts ==
  { <<"a", "\n", "\n", "b", " ", "c", "\n">>, TextNonAscii }

\* ------------------------------------------------------------- file_utils.rs
\* index of the last "." in a file name, 0 when there is none
RECURSIVE LastDot(_, _)
LastDot(name, i) ==
  IF i = 0 THEN 0
  ELSE IF name[i] = "." THEN i ELSE LastDot(name, i - 1)

\* Path::extension: the part after the final ".", None without an embedded "."
\* or when the only "." is the leading one
extension(name) ==
  LET d == LastDot(name, Len(name))
  IN  IF d <= 1 THEN None ELSE Some(SubSeq(name, d + 1, Len(name)))

\* char::to_uppercase on the characters file names are made of
UpperChar(c) ==
  CASE c = "t" -> "T"
    [] c = "x" -> "X"
    [] c = "p" -> "P"
    [] c = "d" -> "D"
    [] c = "f" -> "F"
    [] c = "m" -> "M"
    [] OTHER -> c

to_uppercase(s) == [i \in 1..Len(s) |-> UpperChar(s[i])]

get_file_extension(name) ==
  IF IsSome(extension(name)) THEN to_uppercase(Unwrap(extension(name)))
  ELSE <<"F", "I", "L", "E">>

\* infer::get_from_path first, then the extension table
detect_mime_type(file) ==
  IF IsSome(file.sniff) THEN Unwrap(file.sniff)
  ELSE LET e == extension(file.name)
       IN  CASE e = Some(<<"t", "x", "t">>) -> "text/plain"
             [] e = Some(<<"m", "d">>) -> "text/markdown"
             [] e = Some(<<"p", "d", "f">>) -> "application/pdf"
             [] e = Some(<<"d", "o", "c", "x">>) ->
                  "application/vnd.openxmlformats-officedocument.wordprocessingml.document"
             [] OTHER -> "application/octet-stream"

\* ------------------------------------------------------------- pdf_processor.rs
IsWhitespace(c) == c \in {" ", "\n", "\t"}

RECURSIVE TrimStart(_)
TrimStart(s) ==
  IF s = <<>> THEN s
  ELSE IF IsWhitespace(Head(s)) THEN TrimStart(Tail(s)) ELSE s

RECURSIVE TrimEnd(_)
TrimEnd(s) ==
  IF s = <<>> THEN s
  ELSE IF IsWhitespace(s[Len(s)]) THEN TrimEnd(SubSeq(s, 1, Len(s) - 1)) ELSE s

\* str::trim
trim(s) == TrimEnd(TrimStart(s))

\* str::find("\n\n"): number of characters before the first blank-line break,
\* None when there is none
FindBreak(s, i) ==
  LET breaks == {j \in i..(Len(s) - 1) : s[j] = "\n" /\ s[j + 1] = "\n"}
  IN  IF breaks = {} THEN None
      ELSE Some((CHOOSE j \in breaks : \A k \in breaks : j <= k) - 1)

\* str::rfind(' '): number of characters before the last space, None when none
RFindSpace(s, i) ==
  LET spaces == {j \in 1..i : s[j] = " "}
  IN  IF spaces = {} THEN None
      ELSE Some((CHOOSE j \in spaces : \A k \in spaces : j >= k) - 1)

Ellipsis == <<".", ".", ".">>

\* a UTF-8 continuation byte (10xxxxxx)
IsContinuationByte(b) == b = "A9"

\* str::is_char_boundary: the start, the end, or before a byte that starts a
\* character
is_char_boundary(s, index) ==
  \/ index = 0
  \/ index = Len(s)
  \/ index < Len(s) /\ ~IsContinuationByte(s[index + 1])

\* &trimmed[..max_chars] panics when max_chars is not on a character boundary
generate_preview_panics(text, max_chars) ==
  LET trimmed == trim(text)
  IN  Len(trimmed) > max_chars /\ ~is_char_boundary(trimmed, max_chars)

generate_preview(text, max_chars) ==
  LET trimmed == trim(text)
  IN  IF Len(trimmed) <= max_chars THEN trimmed
      ELSE LET preview == SubSeq(trimmed, 1, max_chars)
               last_space == RFindSpace(preview, Len(preview))
           IN  IF IsSome(last_space)
               THEN SubSeq(preview, 1, Unwrap(last_space)) \o Ellipsis
               ELSE preview \o Ellipsis

\* mutant: the first paragraph is returned whatever its length
generate_basic_summary_unchecked(text, max_chars) ==
  LET trimmed == trim(text)
      first_para_end == FindBreak(trimmed, 1)
  IN  IF IsSome(first_para_end)
      THEN SubSeq(trimmed, 1, Unwrap(first_para_end))
      ELSE generate_preview(trimmed, max_chars)

generate_basic_summary(text, max_chars) ==
  LET trimmed == trim(text)
      first_para_end == FindBreak(trimmed, 1)
  IN  IF IsSome(first_para_end) /\ Unwrap(first_para_end) <= max_chars
      THEN SubSeq(trimmed, 1, Unwrap(first_para_end))
      ELSE generate_preview(trimmed, max_chars)

\* generate_basic_summary panics when its call of generate_preview does
generate_basic_summary_panics(text, max_chars) ==
  LET trimmed == trim(text)
      first_para_end == FindBreak(trimmed, 1)
  IN  /\ ~(IsSome(first_para_end) /\ Unwrap(first_para_end) <= max_chars)
      /\ generate_preview_panics(trimmed, max_chars)

\* the bound upload_file passes to generate_basic_summary
SummaryMaxChars == 500

\* ------------------------------------------------------------- services/document.rs
\* the rows of the documents table in insertion order; ids are assigned 1, 2, ...
\* NOW() is the clock value, which advances with every insert

\* INSERT INTO documents (...) VALUES (..., 'uploading') RETURNING ...
NewDocument(ds, dto, now) ==
  [ id               |-> Len(ds) + 1,
    user_id          |-> dto.user_id,
    workspace_id     |-> None,
    title            |-> dto.title,
    content          |-> None,
    summary          |-> None,
    file_path        |-> None,
    file_name        |-> Some(dto.file_name),
    file_size_bytes  |-> Some(dto.file_size_bytes),
    file_type        |-> Some(dto.file_type),
    mime_type        |-> Some(dto.mime_type),
    status           |-> "uploading",
    processing_error |-> None,
    created_at       |-> now,
    updated_at       |-> now,
    deleted_at       |-> None ]

\* mutant: a file the owner already ingested under that name gets no new row
create_document_dedup(ds, dto, now) ==
  IF \E i \in 1..Len(ds) : ds[i].user_id = dto.user_id /\ ds[i].file_name = Some(dto.file_name)
  THEN ds
  ELSE Append(ds, NewDocument(ds, dto, now))

create_document(ds, dto, now) == Append(ds, NewDocument(ds, dto, now))

\* mutant: the UPDATE lacks its WHERE clause
update_file_path_all_rows(ds, doc_id, file_path, now) ==
  [i \in 1..Len(ds) |->
     [ds[i] EXCEPT !.file_path = Some(file_path), !.updated_at = now]]

\* mutant: the UPDATE also puts the row back to 'uploading'
update_file_path_resets_status(ds, doc_id, file_path, now) ==
  [i \in 1..Len(ds) |->
     IF ds[i].id = doc_id
     THEN [ds[i] EXCEPT !.file_path = Some(file_path), !.status = "uploading",
                        !.updated_at = now]
     ELSE ds[i]]

\* UPDATE documents SET file_path = $2, updated_at = NOW() WHERE id = $1
update_file_path(ds, doc_id, file_path, now) ==
  [i \in 1..Len(ds) |->
     IF ds[i].id = doc_id
     THEN [ds[i] EXCEPT !.file_path = Some(file_path), !.updated_at = now]
     ELSE ds[i]]

\* mutant: the UPDATE does not set status
update_content_and_summary_no_status(ds, doc_id, content, summary, now) ==
  [i \in 1..Len(ds) |->
     IF ds[i].id = doc_id
     THEN [ds[i] EXCEPT !.content = Some(content), !.summary = Some(summary),
                        !.updated_at = now]
     ELSE ds[i]]

\* UPDATE documents SET content = $2, summary = $3, status = 'completed',
\* updated_at = NOW() WHERE id = $1
update_content_and_summary(ds, doc_id, content, summary, now) ==
  [i \in 1..Len(ds) |->
     IF ds[i].id = doc_id
     THEN [ds[i] EXCEPT !.content = Some(content), !.summary = Some(summary),
                        !.status = "completed", !.updated_at = now]
     ELSE ds[i]]

\* mutant: the UPDATE does not set status
update_document_status_no_status(ds, doc_id, status, error, now) ==
  [i \in 1..Len(ds) |->
     IF ds[i].id = doc_id
     THEN [ds[i] EXCEPT !.processing_error = error, !.updated_at = now]
     ELSE ds[i]]

\* mutant: the UPDATE is restricted to rows with deleted_at IS NULL
update_document_status_active_only(ds, doc_id, status, error, now) ==
  [i \in 1..Len(ds) |->
     IF ds[i].id = doc_id /\ ds[i].deleted_at = None
     THEN [ds[i] EXCEPT !.status = status, !.processing_error = error,
                        !.updated_at = now]
     ELSE ds[i]]

\* UPDATE documents SET status = $2, processing_error = $3, updated_at = NOW()
\* WHERE id = $1
update_document_status(ds, doc_id, status, error, now) ==
  [i \in 1..Len(ds) |->
     IF ds[i].id = doc_id
     THEN [ds[i] EXCEPT !.status = status, !.processing_error = error,
                        !.updated_at = now]
     ELSE ds[i]]

\* ORDER BY created_at DESC: insert a row into a list sorted newest first
RECURSIVE InsertByCreatedAtDesc(_, _)
InsertByCreatedAtDesc(sorted, row) ==
  IF sorted = <<>> THEN <<row>>
  ELSE IF row.created_at > Head(sorted).created_at THEN <<row>> \o sorted
  ELSE <<Head(sorted)>> \o InsertByCreatedAtDesc(Tail(sorted), row)

RECURSIVE OrderByCreatedAtDesc(_)
OrderByCreatedAtDesc(rows) ==
  IF rows = <<>> THEN <<>>
  ELSE InsertByCreatedAtDesc(OrderByCreatedAtDesc(Tail(rows)), Head(rows))

\* mutant: the WHERE clause lacks deleted_at IS NULL
get_documents_by_user_with_deleted(ds, user_id) ==
  OrderByCreatedAtDesc(SelectSeq(ds, LAMBDA row : row.user_id = user_id))

\* SELECT ... WHERE user_id = $1 AND deleted_at IS NULL ORDER BY created_at DESC
get_documents_by_user(ds, user_id) ==
  OrderByCreatedAtDesc(
    SelectSeq(ds, LAMBDA row : row.user_id = user_id /\ row.deleted_at = None))

\* ------------------------------------------------------------- lib.rs: state
\* holders of the Arc<Mutex<DocumentService>> guard
HandlerGuard(h) == [kind |-> "handler", id |-> h]
TaskGuard(d) == [kind |-> "task", id |-> d]

\* error strings returned to the caller (map_err(|e| e.to_string()))
ErrUuid == "invalid uuid"
ErrSourceNotFound == "Source file does not exist"
ErrMetadata == "metadata: io error"
ErrMime == "detect_mime_type: io error"
ErrHash == "calculate_sha256: io error"
ErrDir == "create_dir_all: io error"
ErrCopy == "copy: io error"
ErrSqlx == "sqlx error"
ErrLoadPdf == "Failed to load PDF"

\* the errors upload_file returns before it touches the store (lines 53-91)
ValidationErrors ==
  {ErrUuid, ErrSourceNotFound, ErrMetadata, ErrMime, ErrHash, ErrDir, ErrCopy}

\* format!("PDF extraction failed: {}", e) and format!("Failed to save content: {}", e)
MsgExtractionFailed(e) == <<"PDF extraction failed: ", e>>
MsgSaveFailed(e) == <<"Failed to save content: ", e>>

\* format!("{}_{}", &file_hash[..8], file_name) under the documents directory
DestPath(file_hash, file_name) == SubSeq(file_hash, 1, 8) \o <<"_">> \o file_name

DestPaths == { DestPath(f.hash, f.name) : f \in SourceFiles \cup SniffedSourceFiles }

\* CreateDocumentDto values the create_document command is invoked with
Dtos ==
  { [user_id |-> "u2", title |-> Name_p_pdf, file_name |-> Name_p_pdf,
     file_size_bytes |-> 400, file_type |-> <<"P", "D", "F">>,
     mime_type |-> "application/pdf"] }

NoResult == [kind |-> "none"]
ErrResult(e) == [kind |-> "err", error |-> e]

\* a handler task before its command is invoked
IdleHandler ==
  [pc |-> "idle", cmd |-> "none", request |-> None, loc |-> None,
   document |-> None, result |-> NoResult]

\* a document for which no extraction task was spawned; a task's record holds
\* its position pc and its locals pdf_path and text
NoTask == [pc |-> "none", pdf_path |-> None, text |-> None]

\* what the documents directory holds at a destination path
NoManagedFile == [state |-> "absent", content |-> None]

Init ==
  /\ docs = <<>>
  /\ clock = 0
  /\ lock = None
  /\ hs = [h \in Handlers |-> IdleHandler]
  /\ bg = [d \in DocIds |-> NoTask]
  /\ files = [p \in DestPaths |-> NoManagedFile]

\* the frontend's invocations are numbered in the order they are made: task h
\* runs the h-th one
Invocable(h) ==
  /\ hs[h].pc = "idle"
  /\ \A g \in 1..(h - 1) : hs[g].pc # "idle"

\* mutant: the guard outlives the handler
Finish_KeepsGuard(h, result) ==
  /\ hs' = [hs EXCEPT ![h] = [IdleHandler EXCEPT !.pc = "done", !.cmd = hs[h].cmd,
                                               !.request = hs[h].request,
                                               !.result = result]]
  /\ lock' = lock

\* the handler returns: its guard (if it holds one) is dropped with its locals
Finish(h, result) ==
  /\ hs' = [hs EXCEPT ![h] = [IdleHandler EXCEPT !.pc = "done", !.cmd = hs[h].cmd,
                                               !.request = hs[h].request,
                                               !.result = result]]
  /\ lock' = IF lock = Some(HandlerGuard(h)) THEN None ELSE lock

\* ------------------------------------------------------------- lib.rs: upload_file
\* the frontend invokes upload_file(request)
InvokeUploadFile(h, requests) ==
  /\ Invocable(h)
  /\ \E request \in requests :
       hs' = [hs EXCEPT ![h] =
                [IdleHandler EXCEPT !.pc = "validate", !.cmd = "upload_file",
                                    !.request = Some(request)]]
  /\ UNCHANGED <<docs, clock, lock, bg, files>>

UploadFile_Invoke(h) == InvokeUploadFile(h, UploadFileRequests)

\* the same with a file whose content is sniffed as a PDF
UploadFile_InvokeSniffed(h) == InvokeUploadFile(h, SniffedUploadFileRequests)

\* mutant: the check of line 57 is missing
ValidateOutcome_NoExistsCheck(request, io) ==
  LET src == request.source_path
  IN  IF request.user_id \notin Users THEN ErrResult(ErrUuid)
      ELSE IF io = "metadata" THEN ErrResult(ErrMetadata)
      ELSE IF io = "detect_mime_type" THEN ErrResult(ErrMime)
      ELSE IF io = "calculate_sha256" THEN ErrResult(ErrHash)
      ELSE IF io = "create_dir_all" THEN ErrResult(ErrDir)
      ELSE [kind |-> "valid",
            loc  |-> [user_id   |-> request.user_id,
                      file_size |-> src.size,
                      file_name |-> src.name,
                      mime_type |-> detect_mime_type(src),
                      file_type |-> get_file_extension(src.name),
                      file_hash |-> src.hash,
                      dest_path |-> DestPath(src.hash, src.name)]]

\* lines 53-83: parse the user id, check the source exists, read metadata,
\* detect the MIME type and extension, hash, and create the documents directory;
\* io names the I/O call that fails, if any
ValidateOutcome(request, io) ==
  LET src == request.source_path
  IN  IF request.user_id \notin Users THEN ErrResult(ErrUuid)
      ELSE IF ~src.exists THEN ErrResult(ErrSourceNotFound)
      ELSE IF io = "metadata" THEN ErrResult(ErrMetadata)
      ELSE IF io = "detect_mime_type" THEN ErrResult(ErrMime)
      ELSE IF io = "calculate_sha256" THEN ErrResult(ErrHash)
      ELSE IF io = "create_dir_all" THEN ErrResult(ErrDir)
      ELSE [kind |-> "valid",
            loc  |-> [user_id   |-> request.user_id,
                      file_size |-> src.size,
                      file_name |-> src.name,
                      mime_type |-> detect_mime_type(src),
                      file_type |-> get_file_extension(src.name),
                      file_hash |-> src.hash,
                      dest_path |-> DestPath(src.hash, src.name)]]

UploadFile_Validate(h) ==
  /\ hs[h].pc = "validate"
  /\ \E io \in {"none", "metadata", "detect_mime_type", "calculate_sha256", "create_dir_all"} :
       LET out == ValidateOutcome(Unwrap(hs[h].request), io)
       IN  IF out.kind = "err"
           THEN Finish(h, out)
           ELSE /\ hs' = [hs EXCEPT ![h].pc = "copy", ![h].loc = Some(out.loc)]
                /\ UNCHANGED lock
  /\ UNCHANGED <<docs, clock, bg, files>>

\* lines 85-91: std::fs::copy(source_path, dest_path); a failed copy may leave a
\* partial file behind
UploadFile_Copy(h) ==
  /\ hs[h].pc = "copy"
  /\ LET loc == Unwrap(hs[h].loc)
     IN  \/ /\ files' = [files EXCEPT ![loc.dest_path] =
                           [state |-> "complete", content |-> Some(loc.file_hash)]]
            /\ hs' = [hs EXCEPT ![h].pc = "lock"]
            /\ UNCHANGED lock
         \/ /\ files' = [files EXCEPT ![loc.dest_path] =
                           [state |-> "partial", content |-> None]]
            /\ Finish(h, ErrResult(ErrCopy))
         \/ /\ files' = files
            /\ Finish(h, ErrResult(ErrCopy))
  /\ UNCHANGED <<docs, clock, bg>>

\* line 103: state.document_service.lock().await
UploadFile_Lock(h) ==
  /\ hs[h].pc = "lock"
  /\ lock = None
  /\ lock' = Some(HandlerGuard(h))
  /\ hs' = [hs EXCEPT ![h].pc = "create"]
  /\ UNCHANGED <<docs, clock, bg, files>>

\* lines 94-104: service.create_document(dto).await?
UploadFile_Create(h) ==
  /\ hs[h].pc = "create"
  /\ lock = Some(HandlerGuard(h))
  /\ LET loc == Unwrap(hs[h].loc)
         dto == [user_id |-> loc.user_id, title |-> loc.file_name,
                 file_name |-> loc.file_name, file_size_bytes |-> loc.file_size,
                 file_type |-> loc.file_type, mime_type |-> loc.mime_type]
     IN  \/ /\ clock' = clock + 1
            /\ docs' = create_document(docs, dto, clock')
            /\ hs' = [hs EXCEPT ![h].pc = "update_file_path",
                                ![h].document = Some(docs'[Len(docs')])]
            /\ UNCHANGED lock
         \/ /\ Finish(h, ErrResult(ErrSqlx))
            /\ UNCHANGED <<docs, clock>>
  /\ UNCHANGED <<bg, files>>

\* mutant: the result of update_file_path is discarded (let _ =)
UploadFile_UpdateFilePath_IgnoresError(h) ==
  /\ hs[h].pc = "update_file_path"
  /\ lock = Some(HandlerGuard(h))
  /\ LET loc == Unwrap(hs[h].loc)
         document == Unwrap(hs[h].document)
     IN  /\ \/ docs' = update_file_path(docs, document.id, loc.dest_path, clock)
            \/ docs' = docs
         /\ hs' = [hs EXCEPT ![h].pc = "spawn",
                             ![h].document =
                                Some([document EXCEPT !.file_path = Some(loc.dest_path)])]
  /\ UNCHANGED <<clock, lock, bg, files>>

\* lines 106-110: service.update_file_path(document.id, dest_path_str).await?
\* then document.file_path = Some(dest_path_str)
UploadFile_UpdateFilePath(h) ==
  /\ hs[h].pc = "update_file_path"
  /\ lock = Some(HandlerGuard(h))
  /\ LET loc == Unwrap(hs[h].loc)
         document == Unwrap(hs[h].document)
     IN  \/ /\ docs' = update_file_path(docs, document.id, loc.dest_path, clock)
            /\ clock' = clock
            /\ hs' = [hs EXCEPT ![h].pc = "spawn",
                                ![h].document =
                                   Some([document EXCEPT !.file_path = Some(loc.dest_path)])]
            /\ UNCHANGED lock
         \/ /\ Finish(h, ErrResult(ErrSqlx))
            /\ UNCHANGED <<docs, clock>>
  /\ UNCHANGED <<bg, files>>

\* mutant: && for ||
IsPdf_Both(mime_type, file_type) ==
  mime_type = "application/pdf" /\ file_type = <<"P", "D", "F">>

\* line 113: the condition under which the extraction task is spawned
IsPdf(mime_type, file_type) ==
  mime_type = "application/pdf" \/ file_type = <<"P", "D", "F">>

\* lines 112-154: tokio::spawn of the extraction task; the handler goes on at once
UploadFile_Spawn(h) ==
  /\ hs[h].pc = "spawn"
  /\ LET loc == Unwrap(hs[h].loc)
         doc_id == Unwrap(hs[h].document).id
     IN  bg' = IF IsPdf(loc.mime_type, loc.file_type)
               THEN [bg EXCEPT ![doc_id] =
                       [NoTask EXCEPT !.pc = "try_processing",
                                      !.pdf_path = Some(loc.dest_path)]]
               ELSE bg
  /\ hs' = [hs EXCEPT ![h].pc = "return"]
  /\ UNCHANGED <<docs, clock, lock, files>>

\* mutant: the handler awaits the JoinHandle of the task before it returns
UploadFile_Return_AwaitsTask(h) ==
  /\ hs[h].pc = "return"
  /\ bg[Unwrap(hs[h].document).id].pc \in {"none", "done"}
  /\ Finish(h, [kind |-> "ok", document |-> Unwrap(hs[h].document),
                file_hash |-> Unwrap(hs[h].loc).file_hash])
  /\ UNCHANGED <<docs, clock, bg, files>>

\* lines 156-160: Ok(UploadFileResponse { document, file_hash }); the guard taken
\* at line 103 is dropped here
UploadFile_Return(h) ==
  /\ hs[h].pc = "return"
  /\ Finish(h, [kind |-> "ok", document |-> Unwrap(hs[h].document),
                file_hash |-> Unwrap(hs[h].loc).file_hash])
  /\ UNCHANGED <<docs, clock, bg, files>>

\* ------------------------------------------------------------- lib.rs: extraction task
\* lines 118-153, the future given to tokio::spawn, for the document doc_id = d

\* mutant: the task takes the mutex with lock().await
TryLock_Waits(d, locked_pc, skipped_pc) ==
  /\ lock = None
  /\ lock' = Some(TaskGuard(d))
  /\ bg' = [bg EXCEPT ![d].pc = locked_pc]

\* lines 120, 131, 144: service_clone.try_lock(); on contention the block is skipped
TryLock(d, locked_pc, skipped_pc) ==
  IF lock = None
  THEN /\ lock' = Some(TaskGuard(d))
       /\ bg' = [bg EXCEPT ![d].pc = locked_pc]
  ELSE /\ lock' = lock
       /\ bg' = [bg EXCEPT ![d].pc = skipped_pc]

\* line 120
Task_TryLockProcessing(d) ==
  /\ bg[d].pc = "try_processing"
  /\ TryLock(d, "write_processing", "extract")
  /\ UNCHANGED <<docs, clock, hs, files>>

\* line 121: let _ = update_document_status(doc_id, Processing, None).await;
\* the guard is dropped at the end of the if block
Task_WriteProcessing(d) ==
  /\ bg[d].pc = "write_processing"
  /\ lock = Some(TaskGuard(d))
  /\ \/ /\ docs' = update_document_status(docs, d, "processing", None, clock)
        /\ bg' = [bg EXCEPT ![d].pc = "extract"]
     \/ /\ docs' = docs
        /\ bg' = [bg EXCEPT ![d].pc = "extract"]
  /\ lock' = None
  /\ UNCHANGED <<clock, hs, files>>

\* lines 125-128: pdf_processor::extract_text_from_pdf(&pdf_path), and on Ok(text)
\* generate_basic_summary(&text, 500); a panic there ends the task
Task_Extract(d) ==
  /\ bg[d].pc = "extract"
  /\ \/ \E text \in Texts :
          IF generate_basic_summary_panics(text, SummaryMaxChars)
          THEN bg' = [bg EXCEPT ![d].pc = "done"]
          ELSE bg' = [bg EXCEPT ![d].pc = "try_save", ![d].text = Some(text)]
     \/ bg' = [bg EXCEPT ![d].pc = "try_failed"]
  /\ UNCHANGED <<docs, clock, lock, hs, files>>

\* line 131
Task_TryLockSave(d) ==
  /\ bg[d].pc = "try_save"
  /\ TryLock(d, "write_save", "done")
  /\ UNCHANGED <<docs, clock, hs, files>>

\* mutant: the Failed status is written whatever update_content_and_summary returned
Task_WriteSave_Unconditional(d) ==
  /\ bg[d].pc = "write_save"
  /\ lock = Some(TaskGuard(d))
  /\ LET text == Unwrap(bg[d].text)
         summary == generate_basic_summary(text, SummaryMaxChars)
     IN  \/ /\ docs' = update_content_and_summary(docs, d, text, summary, clock)
            /\ bg' = [bg EXCEPT ![d].pc = "write_save_failed"]
         \/ /\ docs' = docs
            /\ bg' = [bg EXCEPT ![d].pc = "write_save_failed"]
  /\ UNCHANGED <<clock, lock, hs, files>>

\* lines 128-132: update_content_and_summary(doc_id, text, summary).await
Task_WriteSave(d) ==
  /\ bg[d].pc = "write_save"
  /\ lock = Some(TaskGuard(d))
  /\ LET text == Unwrap(bg[d].text)
         summary == generate_basic_summary(text, SummaryMaxChars)
     IN  \/ /\ docs' = update_content_and_summary(docs, d, text, summary, clock)
            /\ lock' = None
            /\ bg' = [bg EXCEPT ![d].pc = "done"]
         \/ /\ UNCHANGED <<docs, lock>>
            /\ bg' = [bg EXCEPT ![d].pc = "write_save_failed"]
  /\ UNCHANGED <<clock, hs, files>>

\* lines 133-139: let _ = update_document_status(doc_id, Failed,
\* Some("Failed to save content: ...")).await, still under the guard of line 131
Task_WriteSaveFailed(d) ==
  /\ bg[d].pc = "write_save_failed"
  /\ lock = Some(TaskGuard(d))
  /\ \/ /\ docs' = update_document_status(docs, d, "failed",
                                          Some(MsgSaveFailed(ErrSqlx)), clock)
        /\ bg' = [bg EXCEPT ![d].pc = "done"]
     \/ /\ docs' = docs
        /\ bg' = [bg EXCEPT ![d].pc = "done"]
  /\ lock' = None
  /\ UNCHANGED <<clock, hs, files>>

\* line 144
Task_TryLockFailed(d) ==
  /\ bg[d].pc = "try_failed"
  /\ TryLock(d, "write_failed", "done")
  /\ UNCHANGED <<docs, clock, hs, files>>

\* lines 145-149: let _ = update_document_status(doc_id, Failed,
\* Some("PDF extraction failed: ...")).await
Task_WriteFailed(d) ==
  /\ bg[d].pc = "write_failed"
  /\ lock = Some(TaskGuard(d))
  /\ \/ /\ docs' = update_document_status(docs, d, "failed",
                                          Some(MsgExtractionFailed(ErrLoadPdf)), clock)
        /\ bg' = [bg EXCEPT ![d].pc = "done"]
     \/ /\ docs' = docs
        /\ bg' = [bg EXCEPT ![d].pc = "done"]
  /\ lock' = None
  /\ UNCHANGED <<clock, hs, files>>

\* ------------------------------------------------------------- lib.rs: create_document
CreateDocument_Invoke(h) ==
  /\ Invocable(h)
  /\ \E dto \in Dtos :
       hs' = [hs EXCEPT ![h] =
                [IdleHandler EXCEPT !.pc = "c_lock", !.cmd = "create_document",
                                    !.request = Some(dto)]]
  /\ UNCHANGED <<docs, clock, lock, bg, files>>

\* line 167
CreateDocument_Lock(h) ==
  /\ hs[h].pc = "c_lock"
  /\ lock = None
  /\ lock' = Some(HandlerGuard(h))
  /\ hs' = [hs EXCEPT ![h].pc = "c_create"]
  /\ UNCHANGED <<docs, clock, bg, files>>

\* lines 168-171
CreateDocument_Create(h) ==
  /\ hs[h].pc = "c_create"
  /\ lock = Some(HandlerGuard(h))
  /\ \/ /\ clock' = clock + 1
        /\ docs' = create_document(docs, Unwrap(hs[h].request), clock')
        /\ Finish(h, [kind |-> "created", document |-> docs'[Len(docs')]])
     \/ /\ Finish(h, ErrResult(ErrSqlx))
        /\ UNCHANGED <<docs, clock>>
  /\ UNCHANGED <<bg, files>>

\* ------------------------------------------------------------- lib.rs: get_user_documents
GetUserDocuments_Invoke(h) ==
  /\ Invocable(h)
  /\ \E u \in UserIdStrings :
       hs' = [hs EXCEPT ![h] =
                [IdleHandler EXCEPT !.pc = "l_parse", !.cmd = "get_user_documents",
                                    !.request = Some(u)]]
  /\ UNCHANGED <<docs, clock, lock, bg, files>>

\* line 179
GetUserDocuments_Parse(h) ==
  /\ hs[h].pc = "l_parse"
  /\ IF Unwrap(hs[h].request) \in Users
     THEN /\ hs' = [hs EXCEPT ![h].pc = "l_lock"]
          /\ UNCHANGED lock
     ELSE Finish(h, ErrResult(ErrUuid))
  /\ UNCHANGED <<docs, clock, bg, files>>

\* line 180
GetUserDocuments_Lock(h) ==
  /\ hs[h].pc = "l_lock"
  /\ lock = None
  /\ lock' = Some(HandlerGuard(h))
  /\ hs' = [hs EXCEPT ![h].pc = "l_query"]
  /\ UNCHANGED <<docs, clock, bg, files>>

\* lines 181-184
GetUserDocuments_Query(h) ==
  /\ hs[h].pc = "l_query"
  /\ lock = Some(HandlerGuard(h))
  /\ \/ Finish(h, [kind |-> "documents",
                   documents |-> get_documents_by_user(docs, Unwrap(hs[h].request))])
     \/ Finish(h, ErrResult(ErrSqlx))
  /\ UNCHANGED <<docs, clock, bg, files>>

\* ------------------------------------------------------------- specification
HandlerStep(h) ==
  \/ UploadFile_Invoke(h)
  \/ UploadFile_Validate(h)
  \/ UploadFile_Copy(h)
  \/ UploadFile_Lock(h)
  \/ UploadFile_Create(h)
  \/ UploadFile_UpdateFilePath(h)
  \/ UploadFile_Spawn(h)
  \/ UploadFile_Return(h)
  \/ CreateDocument_Invoke(h)
  \/ CreateDocument_Lock(h)
  \/ CreateDocument_Create(h)
  \/ GetUserDocuments_Invoke(h)
  \/ GetUserDocuments_Parse(h)
  \/ GetUserDocuments_Lock(h)
  \/ GetUserDocuments_Query(h)

TaskStep(d) ==
  \/ Task_TryLockProcessing(d)
  \/ Task_WriteProcessing(d)
  \/ Task_Extract(d)
  \/ Task_TryLockSave(d)
  \/ Task_WriteSave(d)
  \/ Task_WriteSaveFailed(d)
  \/ Task_TryLockFailed(d)
  \/ Task_WriteFailed(d)

Next ==
  \/ \E h \in Handlers : HandlerStep(h)
  \/ \E d \in DocIds : TaskStep(d)

Spec == Init /\ [][Next]_vars

\* ------------------------------------------------------------- scheduling
\* the steps of a command once it is invoked
HandlerRun(h) ==
  \/ UploadFile_Validate(h)
  \/ UploadFile_Copy(h)
  \/ UploadFile_Create(h)
  \/ UploadFile_UpdateFilePath(h)
  \/ UploadFile_Spawn(h)
  \/ UploadFile_Return(h)
  \/ CreateDocument_Create(h)
  \/ GetUserDocuments_Parse(h)
  \/ GetUserDocuments_Query(h)

\* lock().await of lines 103, 167 and 180
HandlerLock(h) ==
  \/ UploadFile_Lock(h)
  \/ CreateDocument_Lock(h)
  \/ GetUserDocuments_Lock(h)

\* the tokio runtime polls every ready task, file and store calls return, and
\* a handler waiting at lock().await gets the mutex once it stays released; the
\* frontend need not invoke anything
FairSpec ==
  /\ Spec
  /\ \A h \in Handlers : WF_vars(HandlerRun(h)) /\ WF_vars(HandlerLock(h))
  /\ \A d \in DocIds : WF_vars(TaskStep(d))

\* ------------------------------------------------------------- pdf_processor.rs called directly
\* text of 400 characters without a blank-line break
Text400 == Repeat("a", 400)

\* text of 600 characters whose last space within the first 500 is the 451st
\* character
Text600 == Repeat("a", 450) \o <<" ">> \o Repeat("b", 149)

ShortTexts ==
  { <<>>,
    <<"a">>,
    <<"a", "b", "c">>,
    <<"a", "b", "c", "d">>,
    <<"a", " ", "b">>,
    <<"a", "b", " ", "c", "d">>,
    <<"a", " ", "b", " ", "c">>,
    <<" ", "a", "b", " ">>,
    <<"a", "\n", "\n", "b">>,
    <<"a", "b", "\n", "\n", "c">>,
    <<"a", "b", "c", "d", "\n", "\n", "e">>,
    <<"a", "b", "c", "d", "e", "f", "\n", "\n", "g">>,
    <<"a", "\n", "b", "c">>,
    <<"a", " ", "b", "\n", "\n", "c">>,
    <<"\n", "\n", "a", "b", "c", "d">>,
    EAcute,
    EAcute \o <<"a">>,
    <<"a">> \o EAcute \o <<"b">>,
    EAcute \o EAcute,
    <<"a", "b">> \o EAcute \o <<"c">>,
    <<"a", " ">> \o EAcute \o <<"b", "c">>,
    <<"a">> \o EAcute \o <<"\n", "\n", "b">> }

ShortBounds == {2, 3}

\* the arguments generate_basic_summary is called with
SummaryCalls ==
  { [text |-> t, max_chars |-> n] : t \in ShortTexts, n \in ShortBounds }
  \cup { [text |-> t, max_chars |-> SummaryMaxChars] : t \in {Text400, Text600, TextNonAscii} }

\* a caller calls generate_basic_summary(text, max_chars), one call after the other
Summary_Call(h) ==
  /\ Invocable(h)
  /\ \A g \in 1..(h - 1) : hs[g].pc = "done"
  /\ \E c \in SummaryCalls :
       hs' = [hs EXCEPT ![h] =
                [IdleHandler EXCEPT !.pc = "s_call", !.cmd = "generate_basic_summary",
                                    !.request = Some(c)]]
  /\ UNCHANGED <<docs, clock, lock, bg, files>>

\* the call returns its String, or panics
Summary_Return(h) ==
  /\ hs[h].pc = "s_call"
  /\ LET c == Unwrap(hs[h].request)
     IN  Finish(h, IF generate_basic_summary_panics(c.text, c.max_chars)
                   THEN [kind |-> "panic"]
                   ELSE [kind |-> "summary",
                         summary |-> generate_basic_summary(c.text, c.max_chars)])
  /\ UNCHANGED <<docs, clock, bg, files>>

NextSummary ==
  \E h \in Handlers : Summary_Call(h) \/ Summary_Return(h)

SpecSummary == Init /\ [][NextSummary]_vars

\* ------------------------------------------------------------- soft delete
\* UPDATE documents SET deleted_at = NOW(), updated_at = NOW() WHERE id = $1 AND
\* deleted_at IS NULL, issued on the pool by a collaborator of this backend; it
\* does not go through the DocumentService mutex
SoftDelete(d) ==
  /\ d \in 1..Len(docs)
  /\ docs[d].deleted_at = None
  /\ docs' = [docs EXCEPT ![d].deleted_at = Some(clock), ![d].updated_at = clock]
  /\ UNCHANGED <<clock, lock, hs, bg, files>>

\* the system next to a collaborator that soft-deletes documents
NextSoftDelete ==
  \/ Next
  \/ \E d \in DocIds : SoftDelete(d)

SpecSoftDelete == Init /\ [][NextSoftDelete]_vars

\* the same system with the sniffed files among the uploads
NextAll ==
  \/ Next
  \/ \E h \in Handlers : UploadFile_InvokeSniffed(h)

SpecAll == Init /\ [][NextAll]_vars

\* ------------------------------------------------------------- properties
Rows == 1..Len(docs)

IsCompleted(row) ==
  /\ row.status = "completed"
  /\ IsSome(row.content)
  /\ IsSome(row.summary)
  /\ row.processing_error = None

IsFailed(row) ==
  /\ row.status = "failed"
  /\ IsSome(row.processing_error)
  /\ row.content = None
  /\ row.summary = None

\* the step with which the task of d ends
TaskEnds(d) == bg[d].pc # "done" /\ bg'[d].pc = "done"

\* the task's step is a try_lock that found the mutex taken
TaskSkips(d) == bg[d].pc \in {"try_processing", "try_save", "try_failed"} /\ lock' = lock

\* the task's step is a store call that returned Ok
TaskWrites(d) == bg'[d] # bg[d] /\ docs' # docs

\* C1: every extraction run whose last step is not a store call returning an
\* error ends with its document Completed with content and summary set, or
\* Failed with processing_error set (never both), whoever holds the service mutex
\* then: the terminal status write is never dropped.
C1_TerminalStep ==
  \A d \in DocIds :
    (TaskEnds(d) /\ (TaskSkips(d) \/ TaskWrites(d))) =>
      (IsCompleted(docs'[d]) \/ IsFailed(docs'[d]))

C1_TerminalStatusRecorded == [][C1_TerminalStep]_vars

\* C2: a row's status only ever changes along Uploading -> Processing ->
\* {Completed | Failed}, Processing being optional: no write changes a Completed
\* or Failed status, and Processing never goes back to Uploading.
LifecycleSteps ==
  { <<"uploading", "processing">>, <<"uploading", "completed">>,
    <<"uploading", "failed">>, <<"processing", "completed">>,
    <<"processing", "failed">> }

C2_StatusStep ==
  \A d \in Rows :
    docs'[d].status # docs[d].status =>
      <<docs[d].status, docs'[d].status>> \in LifecycleSteps

C2_StatusLifecycle == [][C2_StatusStep]_vars

\* one run has ended Completed while another, whose Processing write went
\* through, is about to write Failed
C2_Witness ==
  \E d, e \in Rows :
    /\ bg[d].pc = "done"
    /\ docs[d].status = "completed"
    /\ bg[e].pc = "write_failed"
    /\ docs[e].status = "processing"

\* the document upload_file returns for a request: the inserted row with
\* file_path filled in, whatever the extraction task has done since
ReturnedDocument(h) ==
  LET src == Unwrap(hs[h].request).source_path
      row == docs[hs[h].result.document.id]
  IN  [row EXCEPT !.status = "uploading", !.content = None, !.summary = None,
                  !.processing_error = None, !.updated_at = row.created_at]

\* C3: upload_file never waits for the task it spawns: once update_file_path has
\* succeeded its spawn and return steps are enabled at whatever step the task is,
\* and the Ok result is the created document and the hash, independent of what
\* the extraction does.
C3_ReturnNeverWaits ==
  \A h \in Handlers :
    /\ hs[h].pc = "spawn" => ENABLED UploadFile_Spawn(h)
    /\ hs[h].pc = "return" => ENABLED UploadFile_Return(h)
    /\ (hs[h].pc = "done" /\ hs[h].result.kind = "ok") =>
         /\ hs[h].result.document = ReturnedDocument(h)
         /\ hs[h].result.file_hash = Unwrap(hs[h].request).source_path.hash

\* one upload_file is about to return while its task has already run to its end,
\* and another has returned Ok for a document that has since been Completed
C3_Witness ==
  \E h, g \in Handlers :
    /\ hs[h].pc = "return"
    /\ bg[Unwrap(hs[h].document).id].pc = "done"
    /\ hs[g].pc = "done"
    /\ hs[g].result.kind = "ok"
    /\ docs[hs[g].result.document.id].status = "completed"

\* C4: a run whose extraction failed, or whose update_content_and_summary call
\* failed, records the failure: unless its status call itself returns an error
\* it ends with the document Failed and processing_error describing the failure.
C4_FailureStep ==
  \A d \in DocIds :
    /\ (bg[d].pc = "try_failed" /\ TaskEnds(d)) =>
         (docs'[d].status = "failed"
            /\ docs'[d].processing_error = Some(MsgExtractionFailed(ErrLoadPdf)))
    /\ (bg[d].pc = "write_failed" /\ TaskWrites(d)) =>
         (docs'[d].status = "failed"
            /\ docs'[d].processing_error = Some(MsgExtractionFailed(ErrLoadPdf)))
    /\ (bg[d].pc = "write_save_failed" /\ TaskWrites(d)) =>
         (docs'[d].status = "failed"
            /\ docs'[d].processing_error = Some(MsgSaveFailed(ErrSqlx)))

C4_FailureRecorded == [][C4_FailureStep]_vars

\* C5: content is present iff summary is present iff status is Completed, and the
\* two fields are written once, together, by the write that sets Completed.
C5_ContentState ==
  \A d \in Rows :
    /\ IsSome(docs[d].content) <=> IsSome(docs[d].summary)
    /\ IsSome(docs[d].content) <=> docs[d].status = "completed"

C5_ContentStep ==
  \A d \in Rows :
    (docs'[d].content # docs[d].content \/ docs'[d].summary # docs[d].summary) =>
      /\ docs[d].content = None
      /\ docs[d].summary = None
      /\ docs[d].status # "completed"
      /\ IsCompleted(docs'[d])

C5_ContentWithCompleted == [](C5_ContentState) /\ [][C5_ContentStep]_vars

C5_Witness ==
  \E d \in Rows :
    /\ IsCompleted(docs[d])
    /\ Unwrap(docs[d].summary) # Unwrap(docs[d].content)
    /\ \E e \in Rows : e # d /\ docs[e].status # "completed" /\ docs[e].content = None

\* C6: processing_error is present only on a Failed row: no Uploading,
\* Processing or Completed row carries one.
C6_ErrorOnlyWhenFailed ==
  \A d \in Rows : IsSome(docs[d].processing_error) => docs[d].status = "failed"

\* a Failed row with its error next to a row whose Processing write went through
C6_Witness ==
  \E d, e \in Rows :
    /\ IsFailed(docs[d])
    /\ docs[e].status = "processing"
    /\ docs[e].processing_error = None

\* C7: an upload_file that fails before it reaches the store (user id, missing
\* source, metadata, MIME detection, hashing, directory, copy) returns an error,
\* none of its steps changes a row or spawns a task, and a missing source with a
\* well-formed user id gives the source-not-found error.
C7_FailedReturn(h) ==
  LET request == Unwrap(hs[h].request)
  IN  /\ (request.user_id \notin Users \/ ~request.source_path.exists) =>
           hs[h].result.kind = "err"
      /\ request.user_id \notin Users => hs[h].result = ErrResult(ErrUuid)
      /\ (request.user_id \in Users /\ ~request.source_path.exists) =>
           hs[h].result = ErrResult(ErrSourceNotFound)

C7_ValidationState ==
  \A h \in Handlers :
    /\ hs[h].pc \in {"validate", "copy"} => hs[h].document = None
    /\ (hs[h].pc = "done" /\ hs[h].cmd = "upload_file") => C7_FailedReturn(h)

C7_ValidationStep ==
  \A h \in Handlers :
    /\ (hs'[h] # hs[h] /\ hs[h].pc \in {"idle", "validate", "copy"}) =>
         (docs' = docs /\ bg' = bg)
    /\ (hs'[h] # hs[h] /\ hs'[h].pc = "done" /\ hs'[h].cmd = "upload_file"
          /\ hs'[h].result.kind = "err" /\ hs'[h].result.error \in ValidationErrors) =>
         (hs[h].pc \in {"validate", "copy"} /\ docs' = docs /\ bg' = bg)

C7_ValidationFailureLeavesStore == [](C7_ValidationState) /\ [][C7_ValidationStep]_vars

\* an upload of a missing path has failed while the store holds a row
C7_Witness ==
  \E h \in Handlers :
    /\ hs[h].pc = "done"
    /\ hs[h].cmd = "upload_file"
    /\ hs[h].result = ErrResult(ErrSourceNotFound)
    /\ Len(docs) = 1
    /\ \A d \in DocIds : bg[d].pc # "none" => d = 1

\* the destination path is the first 8 characters of the hash, "_", the file name
IsDestPathOf(path, file_hash, file_name) ==
  /\ Len(path) = 8 + 1 + Len(file_name)
  /\ \A i \in 1..8 : path[i] = file_hash[i]
  /\ path[9] = "_"
  /\ \A i \in 1..Len(file_name) : path[9 + i] = file_name[i]

\* C8: the row create_document inserts is Uploading with file_path, content,
\* summary and processing_error absent; its file_path stays absent until
\* update_file_path; and the document upload_file returns carries the stored
\* file_path, the destination path of the copy.
C8_CreatedState ==
  \A h \in Handlers :
    /\ hs[h].pc = "update_file_path" =>
         LET row == docs[Unwrap(hs[h].document).id]
         IN  /\ row.file_path = None
             /\ row.status = "uploading"
             /\ row.content = None /\ row.summary = None
             /\ row.processing_error = None
             /\ Unwrap(hs[h].document) = row
    /\ (hs[h].pc = "done" /\ hs[h].result.kind = "ok") =>
         LET returned == hs[h].result.document
             src == Unwrap(hs[h].request).source_path
         IN  /\ IsSome(returned.file_path)
             /\ returned.file_path = docs[returned.id].file_path
             /\ IsDestPathOf(Unwrap(returned.file_path), src.hash, src.name)

C8_CreatedStep ==
  \A d \in Rows :
    docs'[d].file_path # docs[d].file_path =>
      \E h \in Handlers :
        /\ hs[h].pc = "update_file_path"
        /\ hs'[h].pc = "spawn"
        /\ Unwrap(hs[h].document).id = d

C8_CreatedThenPath == [](C8_CreatedState) /\ [][C8_CreatedStep]_vars

\* one upload has returned Ok while another sits between create_document and
\* update_file_path
C8_Witness ==
  \E h, g \in Handlers :
    /\ hs[h].pc = "done" /\ hs[h].result.kind = "ok"
    /\ hs[g].pc = "update_file_path"

\* C9: a task is spawned for a document iff its upload detected the MIME type
\* application/pdf or the file type PDF, at most once and only by that upload;
\* a row without a task (note.txt, or any row of the create_document command)
\* stays Uploading with content, summary and processing_error absent.
C9_SpawnState ==
  /\ \A h \in Handlers :
       /\ (hs[h].pc = "return" \/ (hs[h].pc = "done" /\ hs[h].result.kind = "ok")) =>
            LET document == IF hs[h].pc = "return" THEN Unwrap(hs[h].document)
                            ELSE hs[h].result.document
            IN  bg[document.id].pc # "none" <=>
                  (document.mime_type = Some("application/pdf")
                     \/ document.file_type = Some(<<"P", "D", "F">>))
       /\ (hs[h].pc = "done" /\ hs[h].result.kind = "ok"
             /\ Unwrap(hs[h].request).source_path.name = Name_note_txt) =>
            /\ hs[h].result.document.file_type = Some(<<"T", "X", "T">>)
            /\ hs[h].result.document.mime_type = Some("text/plain")
            /\ bg[hs[h].result.document.id].pc = "none"
       /\ (hs[h].pc = "done" /\ hs[h].result.kind = "created") =>
            bg[hs[h].result.document.id].pc = "none"
  /\ \A d \in Rows :
       bg[d].pc = "none" =>
         /\ docs[d].status = "uploading"
         /\ docs[d].content = None /\ docs[d].summary = None
         /\ docs[d].processing_error = None

C9_SpawnStep ==
  \A d \in DocIds :
    /\ (bg[d].pc = "none" /\ bg'[d].pc # "none") =>
         \E h \in Handlers :
           /\ hs[h].pc = "spawn" /\ hs'[h].pc = "return"
           /\ Unwrap(hs[h].document).id = d
    /\ (bg[d].pc # "none" /\ bg'[d].pc = "try_processing") => bg[d].pc = "try_processing"

C9_SpawnIffPdf == [](C9_SpawnState) /\ [][C9_SpawnStep]_vars

\* a text upload has returned with no task, next to a document whose task was
\* spawned for its MIME type alone
C9_Witness ==
  \E h, g \in Handlers :
    /\ hs[h].pc = "done" /\ hs[h].result.kind = "ok"
    /\ bg[hs[h].result.document.id].pc = "none"
    /\ hs[g].pc = "done" /\ hs[g].result.kind = "ok"
    /\ hs[g].result.document.mime_type = Some("application/pdf")
    /\ hs[g].result.document.file_type = Some(<<"T", "X", "T">>)
    /\ bg[hs[g].result.document.id].pc = "done"

\* C10: no handler waiting for the service at line 103 is held up by work on
\* another document: whenever upload_file is at lock().await it can take the
\* mutex, whatever store round-trip another handler or task is in.
C10_NeverBlockedByOtherDocument ==
  \A h \in Handlers : hs[h].pc = "lock" => ENABLED UploadFile_Lock(h)

\* C11: no managed file is written twice: once a copy to a destination path has
\* completed, no later step of any upload_file writes that path again, so no
\* extraction task reads a file another ingestion is writing or has rewritten.
C11_WriteOnceStep ==
  \A p \in DestPaths : files[p].state = "complete" => files'[p] = files[p]

C11_ManagedFileWrittenOnce == [][C11_WriteOnceStep]_vars

\* the upload_file calls that have returned Ok
SuccessfulUploads ==
  {h \in Handlers : hs[h].pc = "done" /\ hs[h].cmd = "upload_file" /\ hs[h].result.kind = "ok"}

\* C12: every successful upload_file has created exactly one record, whose id
\* differs from every other id in the store, also when the same file was
\* ingested before; n successful ingestions account for n different records,
\* and no step changes a record's id or removes a record.
C12_IdState ==
  /\ \A i, j \in Rows : docs[i].id = docs[j].id => i = j
  /\ \A h \in SuccessfulUploads :
       /\ Cardinality({i \in Rows : docs[i].id = hs[h].result.document.id}) = 1
       /\ \A g \in SuccessfulUploads :
            g # h => hs[g].result.document.id # hs[h].result.document.id
  /\ Cardinality(SuccessfulUploads) <= Len(docs)

C12_IdStep ==
  /\ Len(docs') >= Len(docs)
  /\ \A i \in Rows : docs'[i].id = docs[i].id
  /\ \A h \in Handlers :
       (hs[h].cmd = "upload_file" /\ hs'[h] # hs[h]) =>
         IF hs[h].pc = "create" /\ hs'[h].pc = "update_file_path"
         THEN /\ Len(docs') = Len(docs) + 1
              /\ \A i \in Rows : docs[i].id # docs'[Len(docs')].id
              /\ Unwrap(hs'[h].document).id = docs'[Len(docs')].id
         ELSE Len(docs') = Len(docs)

C12_OneNewRecordPerUpload == [](C12_IdState) /\ [][C12_IdStep]_vars

\* the same file was ingested twice and each ingestion returned a record of its own
C12_Witness ==
  \E h, g \in SuccessfulUploads :
    /\ h # g
    /\ hs[h].request = hs[g].request
    /\ hs[h].result.document.id # hs[g].result.document.id
    /\ Len(docs) = 2

\* C13: a record soft-deleted while its extraction run is in flight takes the
\* run's store updates as an active record does: each write the task is about to
\* issue applies to the row (Processing; content and summary with Completed;
\* Failed with its error), a run whose save returns Ok ends Completed, and no
\* step of a task changes deleted_at.
C13_WriteApplies ==
  \A d \in Rows :
    IsSome(docs[d].deleted_at) =>
      /\ bg[d].pc = "write_processing" =>
           ENABLED (Task_WriteProcessing(d)
                      /\ docs'[d] = [docs[d] EXCEPT !.status = "processing",
                                                    !.processing_error = None,
                                                    !.updated_at = clock])
      /\ bg[d].pc = "write_save" =>
           ENABLED (Task_WriteSave(d)
                      /\ bg'[d].pc = "done"
                      /\ IsCompleted(docs'[d])
                      /\ docs'[d].content = bg[d].text
                      /\ docs'[d].deleted_at = docs[d].deleted_at)
      /\ bg[d].pc = "write_save_failed" =>
           ENABLED (Task_WriteSaveFailed(d)
                      /\ docs'[d].status = "failed"
                      /\ docs'[d].processing_error = Some(MsgSaveFailed(ErrSqlx))
                      /\ docs'[d].deleted_at = docs[d].deleted_at)
      /\ bg[d].pc = "write_failed" =>
           ENABLED (Task_WriteFailed(d)
                      /\ docs'[d].status = "failed"
                      /\ docs'[d].processing_error = Some(MsgExtractionFailed(ErrLoadPdf))
                      /\ docs'[d].deleted_at = docs[d].deleted_at)

C13_TaskStep ==
  \A d \in Rows :
    /\ bg'[d] # bg[d] => docs'[d].deleted_at = docs[d].deleted_at
    /\ (bg[d].pc = "write_save" /\ bg'[d].pc = "done") => IsCompleted(docs'[d])

C13_SoftDeletedStillUpdated == [](C13_WriteApplies) /\ [][C13_TaskStep]_vars

\* a run has ended Completed on a soft-deleted record while another record,
\* soft-deleted in flight, is about to be written Failed
C13_Witness ==
  \E d, e \in Rows :
    /\ IsSome(docs[d].deleted_at) /\ bg[d].pc = "done" /\ IsCompleted(docs[d])
    /\ IsSome(docs[e].deleted_at) /\ bg[e].pc = "write_failed"

\* the calls of generate_basic_summary that have returned or panicked
SummaryCallsMade ==
  {h \in Handlers : hs[h].pc = "done" /\ hs[h].cmd = "generate_basic_summary"}

\* str::chars: the characters of a string, a two-byte character standing as its
\* first byte
Chars(s) == SelectSeq(s, LAMBDA b : ~IsContinuationByte(b))

\* the first paragraph is used, or the trimmed text fits the bound
ParagraphOrFits(text, max_chars) ==
  LET trimmed == trim(text)
      first_para_end == FindBreak(trimmed, 1)
  IN  \/ IsSome(first_para_end) /\ Unwrap(first_para_end) <= max_chars
      \/ Len(trimmed) <= max_chars

ClaimedSummary(chars, max_chars) ==
  LET trimmed == trim(chars)
      first_para_end == FindBreak(trimmed, 1)
      cut == SubSeq(trimmed, 1, max_chars)
      last_space == RFindSpace(cut, Len(cut))
  IN  IF IsSome(first_para_end) /\ Unwrap(first_para_end) <= max_chars
      THEN SubSeq(trimmed, 1, Unwrap(first_para_end))
      ELSE IF Len(trimmed) <= max_chars THEN trimmed
      ELSE IF IsSome(last_space) THEN SubSeq(cut, 1, Unwrap(last_space)) \o Ellipsis
      ELSE cut \o Ellipsis

\* C15: for every text and bound N generate_basic_summary returns the first
\* paragraph of the trimmed text when there is a blank-line break and the
\* paragraph has at most N characters; otherwise the trimmed text when it has at
\* most N characters; otherwise its first N characters cut back to before their
\* last space, or uncut when they hold no space, followed by "...".
C15_SummaryValue ==
  \A h \in SummaryCallsMade :
    LET c == Unwrap(hs[h].request)
    IN  /\ hs[h].result.kind = "summary"
        /\ Chars(hs[h].result.summary) = ClaimedSummary(Chars(c.text), c.max_chars)

\* the rows of an owner that are not soft-deleted
ActiveRowsOf(u) == {d \in Rows : docs[d].user_id = u /\ docs[d].deleted_at = None}

\* the listing holds exactly the owner's active rows, each once, newest first
IsListingOf(listing, u) ==
  /\ \A i \in 1..Len(listing) :
       /\ listing[i].id \in ActiveRowsOf(u)
       /\ listing[i] = docs[listing[i].id]
  /\ \A d \in ActiveRowsOf(u) :
       Cardinality({i \in 1..Len(listing) : listing[i].id = d}) = 1
  /\ \A i, j \in 1..Len(listing) :
       docs[listing[i].id].created_at < docs[listing[j].id].created_at => j < i

\* C16: on every store the program reaches, get_documents_by_user(owner) is
\* exactly the owner's documents with deleted_at unset, each once, ordered by
\* created_at descending (a soft-deleted document is omitted, the later created
\* of two documents comes first), and that is what get_user_documents returns.
C16_ListingState ==
  \A u \in Users : IsListingOf(get_documents_by_user(docs, u), u)

C16_ListingStep ==
  \A h \in Handlers :
    (hs[h].pc = "l_query" /\ hs'[h].pc = "done" /\ hs'[h].result.kind = "documents") =>
      IsListingOf(hs'[h].result.documents, Unwrap(hs[h].request))

C16_ListingExactAndOrdered == [](C16_ListingState) /\ [][C16_ListingStep]_vars

\* an owner has two documents, the older one soft-deleted, and the listing is
\* the newer one alone
C16_Witness ==
  \E u \in Users :
    /\ Len(docs) = 2
    /\ docs[1].user_id = u /\ docs[2].user_id = u
    /\ IsSome(docs[1].deleted_at) /\ docs[2].deleted_at = None
    /\ get_documents_by_user(docs, u) = <<docs[2]>>

\* an owner has two active documents and the listing has the second created first
C16_WitnessOrdered ==
  \E u \in Users :
    /\ ActiveRowsOf(u) = {1, 2}
    /\ docs[1].created_at < docs[2].created_at
    /\ get_documents_by_user(docs, u) = <<docs[2], docs[1]>>

\* C17: on every store the program reaches, update_file_path(id, path) called
\* twice leaves what one call leaves, but for updated_at, which does not
\* decrease: the row has the path, its other fields and all other rows are as
\* before; a row that already has the path keeps everything but updated_at; for
\* an id no row has, the store is unchanged.
C17_UpdateFilePathIdempotent ==
  \A id \in 1..(MaxRequests + 1), later \in {clock, clock + 1},
     path \in {DestPath(f.hash, f.name) : f \in SourceFiles} :
    LET once  == update_file_path(docs, id, path, clock)
        twice == update_file_path(once, id, path, later)
    IN  /\ Len(once) = Len(docs) /\ Len(twice) = Len(docs)
        /\ \A i \in Rows : i # id => (once[i] = docs[i] /\ twice[i] = docs[i])
        /\ id \in Rows =>
             /\ once[id] = [docs[id] EXCEPT !.file_path = Some(path), !.updated_at = clock]
             /\ twice[id] = [once[id] EXCEPT !.updated_at = later]
             /\ docs[id].updated_at <= once[id].updated_at
             /\ once[id].updated_at <= twice[id].updated_at
             /\ docs[id].file_path = Some(path) =>
                  once[id] = [docs[id] EXCEPT !.updated_at = clock]
        /\ id \notin Rows => (once = docs /\ twice = docs)

\* upload_file has set the path of a record that is now Completed, next to
\* another record and to an id no record has
C17_Witness ==
  /\ Len(docs) = 1
  /\ IsCompleted(docs[1])
  /\ docs[1].file_path = Some(DestPath(HashA, Name_X_PDF))
  /\ \E h \in Handlers : hs[h].pc = "update_file_path" \/ hs[h].pc = "create"

\* the task's try_lock calls and its store calls
TryPcs == {"try_processing", "try_save", "try_failed"}
WritePcs == {"write_processing", "write_save", "write_save_failed", "write_failed"}

\* how far along its code a task is
Position(pc) ==
  CASE pc = "none" -> 0
    [] pc = "try_processing" -> 1
    [] pc = "write_processing" -> 2
    [] pc = "extract" -> 3
    [] pc \in {"try_save", "try_failed"} -> 4
    [] pc \in {"write_save", "write_failed"} -> 5
    [] pc = "write_save_failed" -> 6
    [] pc = "done" -> 7

\* the number of store writes a task at pc can still make
WritesLeft(pc) ==
  CASE pc \in {"none", "try_processing", "write_processing"} -> 3
    [] pc \in {"extract", "try_save", "write_save"} -> 2
    [] pc \in {"write_save_failed", "try_failed", "write_failed"} -> 1
    [] pc = "done" -> 0

\* C18: an extraction run never waits for the service mutex and never retries:
\* a task that has not ended can always take its next step, whoever holds the
\* mutex; a try_lock that finds the mutex held skips the write and goes on (to
\* the extraction after the Processing write, to the end otherwise); every step
\* moves the task forward and every store write uses up one of three, so the
\* run ends after at most three store writes.
C18_NeverWaits ==
  \A d \in DocIds : bg[d].pc \notin {"none", "done"} => ENABLED TaskStep(d)

C18_TaskStep ==
  \A d \in DocIds :
    (bg'[d] # bg[d] /\ bg[d].pc # "none") =>
      /\ Position(bg'[d].pc) > Position(bg[d].pc)
      /\ WritesLeft(bg'[d].pc) + (IF bg[d].pc \in WritePcs THEN 1 ELSE 0)
           <= WritesLeft(bg[d].pc)
      /\ docs' # docs => bg[d].pc \in WritePcs
      /\ (bg[d].pc \in TryPcs /\ lock # None) =>
           /\ lock' = lock /\ docs' = docs
           /\ bg'[d].pc = IF bg[d].pc = "try_processing" THEN "extract" ELSE "done"
      /\ (bg[d].pc \in TryPcs /\ lock = None) =>
           /\ lock' = Some(TaskGuard(d))
           /\ bg'[d].pc \in WritePcs

C18_RunEnds == \A d \in DocIds : (bg[d].pc # "none") ~> (bg[d].pc = "done")

C18_NeverWaitsNeverRetries ==
  [](C18_NeverWaits) /\ [][C18_TaskStep]_vars /\ C18_RunEnds

\* a task is at the try_lock before its save while a handler holds the mutex,
\* its Processing write not having been applied
C18_Witness ==
  \E d \in Rows, h \in Handlers :
    /\ bg[d].pc = "try_save"
    /\ docs[d].status = "uploading"
    /\ lock = Some(HandlerGuard(h))

\* the handlers and tasks that are between taking the mutex and dropping it
HoldingHandlers ==
  {h \in Handlers : hs[h].pc \in {"create", "update_file_path", "spawn", "return",
                                  "c_create", "l_query"}}
HoldingTasks == {d \in DocIds : bg[d].pc \in WritePcs}

WaitingPcs == {"lock", "c_lock", "l_lock"}

\* C19: the service mutex is held by at most one handler or task at a time and
\* is released on every path: a handler that has returned, with Ok or with an
\* error, and a task outside its store calls hold no guard; something can
\* always run while a command or a task is unfinished, and every handler
\* waiting at lock().await comes to hold the mutex.
C19_LockState ==
  /\ Cardinality(HoldingHandlers) + Cardinality(HoldingTasks) <= 1
  /\ \A h \in Handlers : lock = Some(HandlerGuard(h)) <=> h \in HoldingHandlers
  /\ \A d \in DocIds : lock = Some(TaskGuard(d)) <=> d \in HoldingTasks
  /\ ((\E h \in Handlers : hs[h].pc \notin {"idle", "done"})
        \/ (\E d \in DocIds : bg[d].pc \notin {"none", "done"})) =>
       ENABLED ((\E h \in Handlers : HandlerRun(h) \/ HandlerLock(h))
                  \/ (\E d \in DocIds : TaskStep(d)))

C19_WaiterAcquires ==
  \A h \in Handlers :
    (hs[h].pc \in WaitingPcs) ~> (lock = Some(HandlerGuard(h)))

C19_LockExclusiveAndReleased == [](C19_LockState) /\ C19_WaiterAcquires

\* a handler holds the mutex after another one returned a store error
C19_Witness ==
  \E h, g \in Handlers :
    /\ hs[g].pc = "done"
    /\ hs[g].cmd = "upload_file"
    /\ hs[g].result = ErrResult(ErrSqlx)
    /\ Len(docs) = 1
    /\ lock = Some(HandlerGuard(h))
    /\ hs[h].pc = "create"

\* a record without a path that no upload_file is about to give one
Pathless(d) ==
  /\ docs[d].file_path = None
  /\ ~\E h \in Handlers :
        hs[h].pc = "update_file_path" /\ Unwrap(hs[h].document).id = d

\* the same of the step's second state
PathlessNext(d) ==
  /\ docs'[d].file_path = None
  /\ ~\E h \in Handlers :
        hs'[h].pc = "update_file_path" /\ Unwrap(hs'[h].document).id = d

\* C20: when update_file_path fails after create_document succeeded, upload_file
\* returns the error and spawns no task, PDF or not, and the record it created
\* stays: Uploading, without path, content, summary or error, without a task,
\* listed for its owner, and unchanged by every later step.
C20_FailureStep ==
  \A h \in Handlers :
    (hs[h].pc = "update_file_path" /\ hs'[h].pc = "done") =>
      /\ hs'[h].result = ErrResult(ErrSqlx)
      /\ docs' = docs /\ bg' = bg
      /\ lock' = None
      /\ PathlessNext(Unwrap(hs[h].document).id)

C20_PathlessState ==
  \A d \in Rows :
    Pathless(d) =>
      /\ docs[d].status = "uploading"
      /\ docs[d].content = None /\ docs[d].summary = None
      /\ docs[d].processing_error = None
      /\ bg[d].pc = "none"
      /\ \E i \in 1..Len(get_documents_by_user(docs, docs[d].user_id)) :
           get_documents_by_user(docs, docs[d].user_id)[i] = docs[d]

C20_PathlessStep ==
  \A d \in Rows : Pathless(d) => (PathlessNext(d) /\ docs'[d] = docs[d] /\ bg'[d] = bg[d])

C20_FailedPathUpdateLeavesUploading ==
  [](C20_PathlessState) /\ [][C20_FailureStep /\ C20_PathlessStep]_vars

\* the upload of a PDF has failed at update_file_path and a later listing of the
\* owner shows the record, Uploading and without a path
C20_Witness ==
  \E h, g \in Handlers :
    /\ hs[h].pc = "done" /\ hs[h].cmd = "upload_file"
    /\ hs[h].result = ErrResult(ErrSqlx)
    /\ Unwrap(hs[h].request).source_path.name = Name_X_PDF
    /\ Len(docs) = 1 /\ Pathless(1)
    /\ hs[g].pc = "done" /\ hs[g].result.kind = "documents"
    /\ hs[g].result.documents = <<docs[1]>>

====
